---- MODULE Spec2Model ----
(***************************************************************************)
(* Model of pb::Memory (include/pb/memory.h): a growable byte buffer whose *)
(* capacity growth is delegated to a MemoryGrowthPolicy object.            *)
(*                                                                         *)
(* size_t is scaled down to the words 0..SizeMax; every size_t expression  *)
(* of the source is reduced modulo SizeMax + 1 where the source computes   *)
(* it in size_t.  0 is the byte calloc and memset(.., 0, ..) store.        *)
(***************************************************************************)
EXTENDS Integers, Sequences, FiniteSets, TLC

\* SIZE_MAX of the scaled-down machine word.
SizeMax == 3
\* Longest caller buffer passed to write, and largest size passed to read.
MaxLen == 2
Word == 0..SizeMax
\* The code never inspects a byte it stores, so two values are enough to
\* tell a written byte from a zero-filled one.
Byte == {0, 1}

\* size_t arithmetic: unsigned wrap-around.
Wrap(x) == x % (SizeMax + 1)

Min(a, b) == IF a < b THEN a ELSE b
Max(a, b) == IF a > b THEN a ELSE b

\* Caller buffers of write.
Buffers == UNION {[1..n -> Byte \ {0}] : n \in 0..MaxLen}

\* Percentages the Percentage policy objects are built with.
Percentages == {10, 150}

\* The policy objects of the program, by dynamic type (and tunable).
Policies ==
    {[kind |-> "Fixed", pct |-> 0], [kind |-> "Exponential", pct |-> 0],
     [kind |-> "Linear", pct |-> 0]}
    \cup {[kind |-> "Percentage", pct |-> p] : p \in Percentages}

\* What the environment decides during one call: whether calloc / realloc
\* return a block, the value an out-of-range double -> size_t conversion
\* yields, the indeterminate byte realloc leaves in the added region, and
\* whether an out-of-bounds memcpy faults.
Envs ==
    [calloc_ok : BOOLEAN, realloc_ok : BOOLEAN, conv : Word, junk : Byte,
     fault : BOOLEAN]

VARIABLES
    growth_policy_,   \* the policy object the reference member is bound to
    data_,            \* the allocation: [null, bytes]
    initial_size_,
    max_size_,
    current_size_,
    lazy_init_,
    mutex_,           \* the recursive mutex: [owner, count]
    lastOp,           \* the last call made by the client and how it ended
    thread            \* the call each thread is in, and where in it

vars == <<growth_policy_, data_, initial_size_, max_size_, current_size_,
          lazy_init_, mutex_, lastOp, thread>>

----------------------------------------------------------------------------
\* The allocator.

NullPtr == [null |-> TRUE, bytes |-> <<>>]

\* calloc(n, 1): a zero-filled block of n bytes, or NULL.
calloc(n, ok) ==
    IF ok THEN [null |-> FALSE, bytes |-> [i \in 1..n |-> 0]] ELSE NullPtr

\* realloc(p, n): a block of n bytes that keeps the first min(old, n) bytes
\* of p and holds indeterminate bytes after them, or NULL (p is untouched).
realloc(p, n, ok, junk) ==
    IF ok
    THEN [null |-> FALSE,
          bytes |-> [i \in 1..n |->
                        IF i <= Len(p.bytes) THEN p.bytes[i] ELSE junk]]
    ELSE NullPtr

\* memset0 doing nothing.
memset0_Skip(bytes, from, count) == bytes

\* memset(base + from, 0, count)
memset0(bytes, from, count) ==
    [i \in 1..Len(bytes) |->
        IF i > from /\ i <= from + count THEN 0 ELSE bytes[i]]

\* base + offset + k is address arithmetic in the machine word: the byte of
\* the caller buffer that memcpy moves to or from index i of the block (both
\* counted from 1), a number above the buffer's length when there is none.
Slot(i, offset) == Wrap(i - 1 - offset + (SizeMax + 1)) + 1

\* memcpy_in with the copy stopping one byte early.
memcpy_in_Short(bytes, offset, buffer) ==
    [i \in 1..Len(bytes) |->
        IF Slot(i, offset) < Len(buffer)
        THEN buffer[Slot(i, offset)] ELSE bytes[i]]

\* memcpy(base + offset, buffer, size), restricted to the bytes of the block.
memcpy_in(bytes, offset, buffer) ==
    [i \in 1..Len(bytes) |->
        IF Slot(i, offset) <= Len(buffer)
        THEN buffer[Slot(i, offset)] ELSE bytes[i]]

\* memcpy(buffer, base + offset, size): bytes outside the block are whatever
\* lies there.
memcpy_out(bytes, offset, size, junk) ==
    [k \in 1..size |->
        IF Wrap(offset + k - 1) < Len(bytes)
        THEN bytes[Wrap(offset + k - 1) + 1] ELSE junk]

----------------------------------------------------------------------------
\* The growth policies.

\* double -> size_t conversion: the value when it is representable,
\* otherwise undefined (any word).
ToSizeT(x, conv) == IF x >= 0 /\ x <= SizeMax THEN x ELSE conv

Returns(v) == [throws |-> FALSE, value |-> v]
Throws == [throws |-> TRUE, value |-> 0]

FixedGrowToSize(needed_size, current_size, max_size) == Throws

\* ExponentialGrowToSize without the clamp up to needed_size.
ExponentialGrowToSize_NoFloor(needed_size, current_size, max_size) ==
    Returns(Min(Wrap(current_size * 2), max_size))

ExponentialGrowToSize(needed_size, current_size, max_size) ==
    Returns(Max(Min(Wrap(current_size * 2), max_size), needed_size))

LinearGrowToSize(needed_size, current_size, max_size) ==
    Returns(Max(Min(Wrap(current_size + (current_size \div 2)), max_size),
                needed_size))

\* current_size * (1 + pct / 100) is a double; for the percentages and
\* sizes used here the product is exactly the rational value truncated.
PercentageGrowToSize(pct, needed_size, current_size, max_size, conv) ==
    Returns(Max(Min(ToSizeT((current_size * (100 + pct)) \div 100, conv),
                    max_size),
                needed_size))

\* Virtual dispatch on the dynamic type of the policy object.
grow_to_size(policy, needed_size, current_size, max_size, conv) ==
    CASE policy.kind = "Fixed" ->
            FixedGrowToSize(needed_size, current_size, max_size)
      [] policy.kind = "Exponential" ->
            ExponentialGrowToSize(needed_size, current_size, max_size)
      [] policy.kind = "Linear" ->
            LinearGrowToSize(needed_size, current_size, max_size)
      [] policy.kind = "Percentage" ->
            PercentageGrowToSize(policy.pct, needed_size, current_size,
                                 max_size, conv)

----------------------------------------------------------------------------
\* The Memory object as a record, and its member functions as operators
\* from the object before the call to the object after it and the outcome.

NoCall == [made |-> FALSE, policy |-> [kind |-> "Fixed", pct |-> 0],
           needed |-> 0, current |-> 0, max |-> 0, throws |-> FALSE,
           value |-> 0]

Memory(growth_policy, initial_size, max_size, lazy_init) ==
    [growth_policy_ |-> growth_policy, data_ |-> NullPtr,
     initial_size_ |-> initial_size, max_size_ |-> max_size,
     current_size_ |-> 0, lazy_init_ |-> lazy_init]

\* initialize with the lazy test ignoring force_init.
initialize_LazyIgnoresForce(m, force_init, env) ==
    LET freed == IF ~m.data_.null /\ force_init
                 THEN [m EXCEPT !.data_ = NullPtr, !.current_size_ = 0]
                 ELSE m
        block == calloc(m.initial_size_, env.calloc_ok)
    IN  IF ~m.data_.null /\ ~force_init
        THEN [m |-> m, status |-> "ok"]
        ELSE IF m.lazy_init_
        THEN [m |-> freed, status |-> "ok"]
        ELSE IF block.null
        THEN [m |-> freed, status |-> "AllocationFailure"]
        ELSE [m |-> [freed EXCEPT !.data_ = block,
                                  !.current_size_ = m.initial_size_],
              status |-> "ok"]

\* initialize without the early return on an allocated buffer.
initialize_NoEarlyReturn(m, force_init, env) ==
    LET freed == IF ~m.data_.null /\ force_init
                 THEN [m EXCEPT !.data_ = NullPtr, !.current_size_ = 0]
                 ELSE m
        block == calloc(m.initial_size_, env.calloc_ok)
    IN  IF m.lazy_init_ /\ ~force_init
        THEN [m |-> freed, status |-> "ok"]
        ELSE IF block.null
        THEN [m |-> freed, status |-> "AllocationFailure"]
        ELSE [m |-> [freed EXCEPT !.data_ = block,
                                  !.current_size_ = m.initial_size_],
              status |-> "ok"]

initialize(m, force_init, env) ==
    LET freed == IF ~m.data_.null /\ force_init
                 THEN [m EXCEPT !.data_ = NullPtr, !.current_size_ = 0]
                 ELSE m
        block == calloc(m.initial_size_, env.calloc_ok)
    IN  IF ~m.data_.null /\ ~force_init
        THEN [m |-> m, status |-> "ok"]
        ELSE IF m.lazy_init_ /\ ~force_init
        THEN [m |-> freed, status |-> "ok"]
        ELSE IF block.null
        THEN [m |-> freed, status |-> "AllocationFailure"]
        ELSE [m |-> [freed EXCEPT !.data_ = block,
                                  !.current_size_ = m.initial_size_],
              status |-> "ok"]

\* growth_policy_ is a reference member: the assignment copy-assigns the
\* MemoryGrowthPolicy base subobject (which has no data members) of the
\* argument into the object the reference is bound to.  Neither the binding
\* nor the dynamic type or tunable of the bound object changes.
set_growth_policy(m, growth_policy) ==
    [m |-> [m EXCEPT !.growth_policy_ =
                        [kind |-> m.growth_policy_.kind,
                         pct |-> m.growth_policy_.pct]],
     status |-> "ok"]

\* set_max_size without the comparison to current_size_.
set_max_size_NoCheck(m, max_size) ==
    [m |-> [m EXCEPT !.max_size_ = max_size], status |-> "ok"]

set_max_size(m, max_size) ==
    IF max_size < m.current_size_
    THEN [m |-> m, status |-> "InvalidArgument"]
    ELSE [m |-> [m EXCEPT !.max_size_ = max_size], status |-> "ok"]

\* grow without the initialize(true) of an unallocated buffer.
grow_NoImplicitInit(m, needed_size, env) ==
    LET init == [m |-> m, status |-> "ok"]
        m1 == init.m
        r == grow_to_size(m1.growth_policy_, needed_size, m1.current_size_,
                          m1.max_size_, env.conv)
        call == [made |-> TRUE, policy |-> m1.growth_policy_,
                 needed |-> needed_size, current |-> m1.current_size_,
                 max |-> m1.max_size_, throws |-> r.throws,
                 value |-> r.value]
        new_size == r.value
        new_data == realloc(m1.data_, new_size, env.realloc_ok, env.junk)
    IN  IF init.status # "ok"
        THEN [m |-> m1, status |-> init.status, call |-> NoCall]
        ELSE IF needed_size <= m1.current_size_
        THEN [m |-> m1, status |-> "ok", call |-> NoCall]
        ELSE IF needed_size > m1.max_size_
        THEN [m |-> m1, status |-> "GrowthDenied", call |-> NoCall]
        ELSE IF r.throws
        THEN [m |-> m1, status |-> "GrowthDenied", call |-> call]
        ELSE IF new_size = m1.current_size_ /\ new_size = m1.max_size_
        THEN [m |-> m1, status |-> "GrowthDenied", call |-> call]
        ELSE IF new_data.null
        THEN [m |-> m1, status |-> "AllocationFailure", call |-> call]
        ELSE [m |-> [m1 EXCEPT
                        !.data_ = [null |-> FALSE,
                                   bytes |-> memset0(new_data.bytes,
                                                m1.current_size_,
                                                new_size - m1.current_size_)],
                        !.current_size_ = new_size],
              status |-> "ok", call |-> call]

grow(m, needed_size, env) ==
    LET init == IF m.data_.null
                THEN initialize(m, TRUE, env)
                ELSE [m |-> m, status |-> "ok"]
        m1 == init.m
        r == grow_to_size(m1.growth_policy_, needed_size, m1.current_size_,
                          m1.max_size_, env.conv)
        call == [made |-> TRUE, policy |-> m1.growth_policy_,
                 needed |-> needed_size, current |-> m1.current_size_,
                 max |-> m1.max_size_, throws |-> r.throws,
                 value |-> r.value]
        new_size == r.value
        new_data == realloc(m1.data_, new_size, env.realloc_ok, env.junk)
    IN  IF init.status # "ok"
        THEN [m |-> m1, status |-> init.status, call |-> NoCall]
        ELSE IF needed_size <= m1.current_size_
        THEN [m |-> m1, status |-> "ok", call |-> NoCall]
        ELSE IF needed_size > m1.max_size_
        THEN [m |-> m1, status |-> "GrowthDenied", call |-> NoCall]
        ELSE IF r.throws
        THEN [m |-> m1, status |-> "GrowthDenied", call |-> call]
        ELSE IF new_size = m1.current_size_ /\ new_size = m1.max_size_
        THEN [m |-> m1, status |-> "GrowthDenied", call |-> call]
        ELSE IF new_data.null
        THEN [m |-> m1, status |-> "AllocationFailure", call |-> call]
        ELSE [m |-> [m1 EXCEPT
                        !.data_ = [null |-> FALSE,
                                   bytes |-> memset0(new_data.bytes,
                                                m1.current_size_,
                                                new_size - m1.current_size_)],
                        !.current_size_ = new_size],
              status |-> "ok", call |-> call]

\* memcpy touches bytes outside the allocation.
OutOfBounds(m, offset, size) ==
    size > 0 /\ offset + size > Len(m.data_.bytes)

read(m, size, offset, env) ==
    IF Wrap(offset + size) > m.current_size_
    THEN [m |-> m, status |-> "InvalidRange", ret |-> 0, buffer |-> <<>>,
          oob |-> FALSE]
    ELSE IF OutOfBounds(m, offset, size) /\ env.fault
    THEN [m |-> m, status |-> "crash", ret |-> 0, buffer |-> <<>>,
          oob |-> TRUE]
    ELSE [m |-> m, status |-> "ok", ret |-> size,
          buffer |-> memcpy_out(m.data_.bytes, offset, size, env.junk),
          oob |-> OutOfBounds(m, offset, size)]

write(m, buffer, offset, env) ==
    LET size == Len(buffer)
        g == IF Wrap(offset + size) > m.current_size_
             THEN grow(m, Wrap(offset + size), env)
             ELSE [m |-> m, status |-> "ok", call |-> NoCall]
        m1 == g.m
    IN  IF g.status # "ok"
        THEN [m |-> m1, status |-> g.status, ret |-> 0, oob |-> FALSE,
              call |-> g.call]
        ELSE IF OutOfBounds(m1, offset, size) /\ env.fault
        THEN [m |-> m1, status |-> "crash", ret |-> 0, oob |-> TRUE,
              call |-> g.call]
        ELSE [m |-> [m1 EXCEPT !.data_.bytes =
                                  memcpy_in(m1.data_.bytes, offset, buffer)],
              status |-> "ok", ret |-> size,
              oob |-> OutOfBounds(m1, offset, size), call |-> g.call]

----------------------------------------------------------------------------
\* The state machine: one client calling the public member functions.

self ==
    [growth_policy_ |-> growth_policy_, data_ |-> data_,
     initial_size_ |-> initial_size_, max_size_ |-> max_size_,
     current_size_ |-> current_size_, lazy_init_ |-> lazy_init_]

Becomes(m) ==
    /\ growth_policy_' = m.growth_policy_
    /\ data_' = m.data_
    /\ initial_size_' = m.initial_size_
    /\ max_size_' = m.max_size_
    /\ current_size_' = m.current_size_
    /\ lazy_init_' = m.lazy_init_

\* The record of a call: its name, arguments and outcome.  fresh tells that
\* the call obtained the block from calloc; call is the invocation of the
\* growth policy it made, if any.
Constructed ==
    [op |-> "Memory", status |-> "ok", force |-> FALSE, offset |-> 0,
     size |-> 0, buffer |-> <<>>, ret |-> 0, oob |-> FALSE, fresh |-> FALSE,
     policy |-> [kind |-> "Fixed", pct |-> 0], call |-> NoCall]

\* The recursive mutex, free or held count times by its owner.
Threads == {1, 2}
Unlocked == [owner |-> 0, count |-> 0]

\* A thread that is in no call of the object.
Idle ==
    [pc |-> "idle", op |-> "none", offset |-> 0, buffer |-> <<>>, size |-> 0,
     force |-> FALSE, needed |-> 0, new_size |-> 0, status |-> "none",
     call |-> NoCall]

\* The client is the only thread: its call takes the lock and has released
\* it when it ends, and no other thread is in a call.
Alone == UNCHANGED <<mutex_, thread>>

\* The process is gone once a memcpy has faulted.
Running == lastOp.status # "crash"

\* The environment choices a call can consume; the ones it cannot are held
\* at one value, which leaves the set of successor states as it is.
Quiet == [calloc_ok |-> TRUE, realloc_ok |-> TRUE, conv |-> 0, junk |-> 0,
          fault |-> FALSE]

InitializeEnvs == {[Quiet EXCEPT !.calloc_ok = c] : c \in BOOLEAN}

ReadEnvs(m, size, offset) ==
    IF OutOfBounds(m, offset, size)
    THEN {[Quiet EXCEPT !.junk = j, !.fault = f] : j \in Byte, f \in BOOLEAN}
    ELSE {Quiet}

WriteEnvs(m, buffer, offset) ==
    LET grows == Wrap(offset + Len(buffer)) > m.current_size_
    IN  [calloc_ok : IF grows /\ m.data_.null THEN BOOLEAN ELSE {TRUE},
         realloc_ok : IF grows THEN BOOLEAN ELSE {TRUE},
         conv : IF grows /\ m.growth_policy_.kind = "Percentage"
                THEN Word ELSE {0},
         junk : IF grows THEN Byte ELSE {0},
         fault : IF offset + Len(buffer) > SizeMax THEN BOOLEAN
                 ELSE {FALSE}]

Init ==
    \E p \in Policies, i \in Word, x \in Word, l \in BOOLEAN :
        /\ growth_policy_ = Memory(p, i, x, l).growth_policy_
        /\ data_ = Memory(p, i, x, l).data_
        /\ initial_size_ = Memory(p, i, x, l).initial_size_
        /\ max_size_ = Memory(p, i, x, l).max_size_
        /\ current_size_ = Memory(p, i, x, l).current_size_
        /\ lazy_init_ = Memory(p, i, x, l).lazy_init_
        /\ mutex_ = Unlocked
        /\ lastOp = Constructed
        /\ thread = [t \in Threads |-> Idle]

Initialize ==
    \E force_init \in BOOLEAN, env \in InitializeEnvs :
        \E r \in {initialize(self, force_init, env)} :
            /\ Running
            /\ Becomes(r.m)
            /\ Alone
            /\ lastOp' = [Constructed EXCEPT
                            !.op = "initialize", !.status = r.status,
                            !.force = force_init,
                            !.fresh = ~r.m.data_.null
                                      /\ (self.data_.null \/ force_init)]

SetGrowthPolicy ==
    \E growth_policy \in Policies :
        \E r \in {set_growth_policy(self, growth_policy)} :
            /\ Running
            /\ Becomes(r.m)
            /\ Alone
            /\ lastOp' = [Constructed EXCEPT
                            !.op = "set_growth_policy", !.status = r.status,
                            !.policy = growth_policy]

SetMaxSize ==
    \E max_size \in Word :
        \E r \in {set_max_size(self, max_size)} :
            /\ Running
            /\ Becomes(r.m)
            /\ Alone
            /\ lastOp' = [Constructed EXCEPT
                            !.op = "set_max_size", !.status = r.status,
                            !.size = max_size]

Read ==
    \E size \in 0..MaxLen, offset \in Word :
      \E env \in ReadEnvs(self, size, offset) :
        \E r \in {read(self, size, offset, env)} :
            /\ Running
            /\ Becomes(r.m)
            /\ Alone
            /\ lastOp' = [Constructed EXCEPT
                            !.op = "read", !.status = r.status,
                            !.offset = offset, !.size = size,
                            !.buffer = r.buffer, !.ret = r.ret,
                            !.oob = r.oob]

Write ==
    \E buffer \in Buffers, offset \in Word :
      \E env \in WriteEnvs(self, buffer, offset) :
        \E r \in {write(self, buffer, offset, env)} :
            /\ Running
            /\ Becomes(r.m)
            /\ Alone
            /\ lastOp' = [Constructed EXCEPT
                            !.op = "write", !.status = r.status,
                            !.offset = offset, !.size = Len(buffer),
                            !.buffer = buffer, !.ret = r.ret, !.oob = r.oob,
                            !.fresh = self.data_.null /\ ~r.m.data_.null,
                            !.call = r.call]

Next ==
    \/ Initialize
    \/ SetGrowthPolicy
    \/ SetMaxSize
    \/ Read
    \/ Write

Spec == Init /\ [][Next]_vars

----------------------------------------------------------------------------
\* A client calling grow_to_size of a policy object directly, with any
\* arguments.  No Memory object takes part.

InitPolicy ==
    /\ growth_policy_ = [kind |-> "Fixed", pct |-> 0]
    /\ data_ = NullPtr
    /\ initial_size_ = 0
    /\ max_size_ = SizeMax
    /\ current_size_ = 0
    /\ lazy_init_ = FALSE
    /\ mutex_ = Unlocked
    /\ lastOp = Constructed
    /\ thread = [t \in Threads |-> Idle]

\* The policy objects a client builds for such calls: the percentage is any
\* double, among them one whose increase leaves the word range at once.
ClientPolicies == Policies \cup {[kind |-> "Percentage", pct |-> 300]}

GrowToSize ==
    \E policy \in ClientPolicies, needed_size \in Word, current_size \in Word,
       max_size \in Word, conv \in Word :
        LET r == grow_to_size(policy, needed_size, current_size, max_size,
                              conv)
        IN  /\ lastOp' = [Constructed EXCEPT
                            !.op = "grow_to_size",
                            !.status = IF r.throws THEN "GrowthDenied"
                                       ELSE "ok",
                            !.ret = r.value,
                            !.call = [made |-> TRUE, policy |-> policy,
                                      needed |-> needed_size,
                                      current |-> current_size,
                                      max |-> max_size, throws |-> r.throws,
                                      value |-> r.value]]
            /\ UNCHANGED <<growth_policy_, data_, initial_size_, max_size_,
                           current_size_, lazy_init_, mutex_, thread>>

NextPolicy == GrowToSize

SpecPolicy == InitPolicy /\ [][NextPolicy]_vars

----------------------------------------------------------------------------
\* Two threads calling member functions of one Memory object.  A step of a
\* thread is the code between two points where it touches state that another
\* thread can touch at the same time: the acquisition of mutex_, and every
\* access to max_size_ and current_size_ that set_max_size makes without the
\* lock or that can meet one.

\* A lock with no regard to the owner: std::mutex in place of
\* std::recursive_mutex.
CanLock_NonRecursive(mu, t) == mu.owner = 0

\* A lock that excludes nobody.
CanLock_Always(mu, t) == TRUE

\* std::recursive_mutex::lock returns when the mutex is free or owned by the
\* calling thread.
CanLock(mu, t) == mu.owner \in {0, t}

lock(mu, t) == [owner |-> t, count |-> mu.count + 1]

\* ~lock_guard
unlock(mu) ==
    IF mu.count <= 1 THEN Unlocked ELSE [mu EXCEPT !.count = @ - 1]

\* Offsets and buffers of the threads' reads and writes: extents that stay
\* inside the word range.  Thread 1 stores ones, thread 2 zeros.
ThreadOffsets == 0..(SizeMax - MaxLen)
ThreadBuffers(t) == {[i \in 1..n |-> t % 2] : n \in 0..MaxLen}

\* The calls a thread can make.  Thread 1 is a writer; thread 2 makes any
\* call.
Calls(t) ==
    {[Idle EXCEPT !.pc = "write", !.op = "write", !.buffer = b,
                  !.size = Len(b), !.offset = o] :
        b \in ThreadBuffers(t), o \in ThreadOffsets}
    \cup
    IF t = 1 THEN {}
    ELSE {[Idle EXCEPT !.pc = "set_max_size", !.op = "set_max_size",
                       !.size = x] : x \in Word}
         \cup {[Idle EXCEPT !.pc = "initialize", !.op = "initialize",
                            !.force = f] : f \in BOOLEAN}
         \cup {[Idle EXCEPT !.pc = op, !.op = op] :
                  op \in {"set_growth_policy", "read", "current_size"}}

\* The members no call of a thread assigns, and the single client's record.
Settled == <<growth_policy_, initial_size_, lazy_init_, lastOp>>

Goto(t, pc) == thread' = [thread EXCEPT ![t].pc = pc]

\* The call of thread t is over.
Done(t, status) ==
    thread' = [thread EXCEPT ![t].pc = "done", ![t].status = status,
                             ![t].needed = 0, ![t].new_size = 0]

\* An exception leaves the call chain: every lock_guard on the way out is
\* destroyed.
Throw(t, status) ==
    /\ Done(t, status)
    /\ mutex_' = Unlocked

Call(t) ==
    /\ thread[t].pc = "idle"
    /\ \E frame \in Calls(t) : thread' = [thread EXCEPT ![t] = frame]
    /\ UNCHANGED <<data_, max_size_, current_size_, mutex_>>
    /\ UNCHANGED Settled

\* write: the lock_guard and the test of the extent.
WriteEnter(t) ==
    LET extent == Wrap(thread[t].offset + thread[t].size)
    IN  /\ thread[t].pc = "write"
        /\ CanLock(mutex_, t)
        /\ mutex_' = lock(mutex_, t)
        /\ thread' = [thread EXCEPT
                        ![t].pc = IF extent > current_size_ THEN "grow"
                                  ELSE "memcpy",
                        ![t].needed = IF extent > current_size_ THEN extent
                                      ELSE 0]
        /\ UNCHANGED <<data_, max_size_, current_size_>>
        /\ UNCHANGED Settled

\* grow: the lock_guard and the test of data_.
GrowEnter(t) ==
    /\ thread[t].pc = "grow"
    /\ CanLock(mutex_, t)
    /\ mutex_' = lock(mutex_, t)
    /\ thread' = [thread EXCEPT
                    ![t].pc = IF data_.null THEN "initialize"
                              ELSE "grow_enough",
                    ![t].force = data_.null]
    /\ UNCHANGED <<data_, max_size_, current_size_>>
    /\ UNCHANGED Settled

\* initialize: the lock_guard and the release of an allocated block.
InitializeEnter(t) ==
    /\ thread[t].pc = "initialize"
    /\ CanLock(mutex_, t)
    /\ IF ~data_.null /\ ~thread[t].force
       THEN \* return: the guard just taken is released again
            /\ mutex_' = unlock(lock(mutex_, t))
            /\ IF thread[t].op = "write" THEN Goto(t, "grow_enough")
               ELSE Done(t, "ok")
            /\ UNCHANGED <<data_, current_size_>>
       ELSE /\ mutex_' = lock(mutex_, t)
            /\ Goto(t, "calloc")
            /\ data_' = NullPtr
            /\ current_size_' = IF data_.null THEN current_size_ ELSE 0
    /\ UNCHANGED max_size_
    /\ UNCHANGED Settled

\* initialize: the lazy test and the allocation, on the block-less object.
InitializeAlloc(t) ==
    /\ thread[t].pc = "calloc"
    /\ \E env \in InitializeEnvs :
        \E r \in {initialize(self, thread[t].force, env)} :
            /\ data_' = r.m.data_
            /\ current_size_' = r.m.current_size_
            /\ IF r.status # "ok"
               THEN Throw(t, r.status)
               ELSE /\ mutex_' = unlock(mutex_)
                    /\ IF thread[t].op = "write"
                       THEN thread' = [thread EXCEPT
                                         ![t].pc = "grow_enough",
                                         ![t].force = FALSE]
                       ELSE Done(t, "ok")
    /\ UNCHANGED max_size_
    /\ UNCHANGED Settled

\* grow: needed_size <= current_size_ returns to write.
GrowEnough(t) ==
    /\ thread[t].pc = "grow_enough"
    /\ IF thread[t].needed <= current_size_
       THEN /\ mutex_' = unlock(mutex_)
            /\ thread' = [thread EXCEPT ![t].pc = "memcpy", ![t].needed = 0]
       ELSE /\ Goto(t, "grow_ceiling")
            /\ UNCHANGED mutex_
    /\ UNCHANGED <<data_, max_size_, current_size_>>
    /\ UNCHANGED Settled

\* grow: needed_size > max_size_ throws.
GrowCeiling(t) ==
    /\ thread[t].pc = "grow_ceiling"
    /\ IF thread[t].needed > max_size_
       THEN Throw(t, "GrowthDenied")
       ELSE /\ Goto(t, "grow_policy")
            /\ UNCHANGED mutex_
    /\ UNCHANGED <<data_, max_size_, current_size_>>
    /\ UNCHANGED Settled

\* grow: the call of the policy.
GrowPolicy(t) ==
    /\ thread[t].pc = "grow_policy"
    /\ \E conv \in IF growth_policy_.kind = "Percentage" THEN Word ELSE {0} :
        \E r \in {grow_to_size(growth_policy_, thread[t].needed,
                               current_size_, max_size_, conv)} :
          LET call == [made |-> TRUE, policy |-> growth_policy_,
                       needed |-> thread[t].needed,
                       current |-> current_size_, max |-> max_size_,
                       throws |-> r.throws, value |-> r.value]
          IN  IF r.throws
              THEN /\ thread' = [thread EXCEPT
                                   ![t].pc = "done",
                                   ![t].status = "GrowthDenied",
                                   ![t].needed = 0, ![t].call = call]
                   /\ mutex_' = Unlocked
              ELSE /\ thread' = [thread EXCEPT
                                   ![t].pc = "grow_saturated",
                                   ![t].new_size = r.value,
                                   ![t].call = call]
                   /\ UNCHANGED mutex_
    /\ UNCHANGED <<data_, max_size_, current_size_>>
    /\ UNCHANGED Settled

\* grow: new_size == current_size_ && new_size == max_size_ throws.
GrowSaturated(t) ==
    /\ thread[t].pc = "grow_saturated"
    /\ IF thread[t].new_size = current_size_
          /\ thread[t].new_size = max_size_
       THEN Throw(t, "GrowthDenied")
       ELSE /\ Goto(t, "grow_realloc")
            /\ UNCHANGED mutex_
    /\ UNCHANGED <<data_, max_size_, current_size_>>
    /\ UNCHANGED Settled

\* grow: realloc, memset of the added region, current_size_ = new_size, and
\* the return to write.
GrowRealloc(t) ==
    /\ thread[t].pc = "grow_realloc"
    /\ \E ok \in BOOLEAN, junk \in Byte :
        \E new_data \in {realloc(data_, thread[t].new_size, ok, junk)} :
            IF new_data.null
            THEN /\ Throw(t, "AllocationFailure")
                 /\ UNCHANGED <<data_, current_size_>>
            ELSE /\ data_' = [null |-> FALSE,
                              bytes |-> memset0(new_data.bytes, current_size_,
                                          thread[t].new_size - current_size_)]
                 /\ current_size_' = thread[t].new_size
                 /\ mutex_' = unlock(mutex_)
                 /\ thread' = [thread EXCEPT ![t].pc = "memcpy",
                                             ![t].needed = 0,
                                             ![t].new_size = 0]
    /\ UNCHANGED max_size_
    /\ UNCHANGED Settled

\* write: memcpy and return.
WriteCopy(t) ==
    /\ thread[t].pc = "memcpy"
    /\ data_' = [data_ EXCEPT !.bytes = memcpy_in(data_.bytes,
                                                  thread[t].offset,
                                                  thread[t].buffer)]
    /\ mutex_' = unlock(mutex_)
    /\ Done(t, "ok")
    /\ UNCHANGED <<max_size_, current_size_>>
    /\ UNCHANGED Settled

\* read: the lock_guard.
ReadEnter(t) ==
    /\ thread[t].pc = "read"
    /\ CanLock(mutex_, t)
    /\ mutex_' = lock(mutex_, t)
    /\ Goto(t, "read_body")
    /\ UNCHANGED <<data_, max_size_, current_size_>>
    /\ UNCHANGED Settled

\* read: the range test, memcpy and return.
ReadBody(t) ==
    /\ thread[t].pc = "read_body"
    /\ \E size \in 0..MaxLen, offset \in ThreadOffsets :
          Done(t, read(self, size, offset, Quiet).status)
    /\ mutex_' = unlock(mutex_)
    /\ UNCHANGED <<data_, max_size_, current_size_>>
    /\ UNCHANGED Settled

\* current_size(): the lock_guard.
CurrentSizeEnter(t) ==
    /\ thread[t].pc = "current_size"
    /\ CanLock(mutex_, t)
    /\ mutex_' = lock(mutex_, t)
    /\ Goto(t, "current_size_return")
    /\ UNCHANGED <<data_, max_size_, current_size_>>
    /\ UNCHANGED Settled

CurrentSizeReturn(t) ==
    /\ thread[t].pc = "current_size_return"
    /\ thread' = [thread EXCEPT ![t].pc = "done", ![t].status = "ok",
                                ![t].size = current_size_]
    /\ mutex_' = unlock(mutex_)
    /\ UNCHANGED <<data_, max_size_, current_size_>>
    /\ UNCHANGED Settled

\* set_max_size: the comparison to current_size_, with no lock held.
SetMaxSizeCheck(t) ==
    /\ thread[t].pc = "set_max_size"
    /\ IF thread[t].size < current_size_
       THEN Done(t, "InvalidArgument")
       ELSE Goto(t, "set_max_size_store")
    /\ UNCHANGED <<data_, max_size_, current_size_, mutex_>>
    /\ UNCHANGED Settled

\* set_max_size: max_size_ = max_size, with no lock held.
SetMaxSizeStore(t) ==
    /\ thread[t].pc = "set_max_size_store"
    /\ max_size_' = thread[t].size
    /\ Done(t, "ok")
    /\ UNCHANGED <<data_, current_size_, mutex_>>
    /\ UNCHANGED Settled

\* set_growth_policy: the assignment through the reference, with no lock
\* held; it stores nothing (see set_growth_policy above).
SetGrowthPolicyStore(t) ==
    /\ thread[t].pc = "set_growth_policy"
    /\ \E growth_policy \in Policies :
          growth_policy_' = set_growth_policy(self, growth_policy)
                                .m.growth_policy_
    /\ Done(t, "ok")
    /\ UNCHANGED <<data_, max_size_, current_size_, mutex_,
                   initial_size_, lazy_init_, lastOp>>

Step(t) ==
    \/ Call(t)
    \/ WriteEnter(t)
    \/ GrowEnter(t)
    \/ InitializeEnter(t)
    \/ InitializeAlloc(t)
    \/ GrowEnough(t)
    \/ GrowCeiling(t)
    \/ GrowPolicy(t)
    \/ GrowSaturated(t)
    \/ GrowRealloc(t)
    \/ WriteCopy(t)
    \/ ReadEnter(t)
    \/ ReadBody(t)
    \/ CurrentSizeEnter(t)
    \/ CurrentSizeReturn(t)
    \/ SetMaxSizeCheck(t)
    \/ SetMaxSizeStore(t)
    \/ SetGrowthPolicyStore(t)

NextThreads == \E t \in Threads : Step(t)

SpecThreads == Init /\ [][NextThreads]_vars

\* The scheduler lets every thread that can take a step take one in the end.
\* std::recursive_mutex promises a waiting thread nothing about the order of
\* acquisition; a thread makes one call here, so a waiting thread is not
\* overtaken again and again, and weak fairness is all it needs.
SpecThreadsFair ==
    SpecThreads /\ \A t \in Threads : WF_vars(Step(t))

----------------------------------------------------------------------------
\* Properties.

\* The mathematical extent offset + size of the last read or write.
Extent == lastOp.offset + lastOp.size

\* read(offset, size) with the arguments of the last call, issued now,
\* returns the buffer of that call.
ReadBack ==
    \A env \in ReadEnvs(self, lastOp.size, lastOp.offset) :
        LET r == read(self, lastOp.size, lastOp.offset, env)
        IN  r.status = "ok" /\ r.buffer = lastOp.buffer

\* C1 as stated: every write(offset, bytes) with offset + len(bytes) <=
\* max_size succeeds, and a read(offset, len(bytes)) right after it returns
\* bytes.
C1_WriteSucceedsAndReadsBack ==
    (lastOp.op = "write" /\ Extent <= max_size_)
        => (lastOp.status = "ok" /\ ReadBack)

\* C1 amended: a write(offset, bytes) with offset + len(bytes) <= max_size
\* either succeeds, returns len(bytes), and a read(offset, len(bytes)) right
\* after it returns bytes; or fails with AllocationFailure; or fails with
\* GrowthDenied, which happens only under the Fixed policy for an extent
\* beyond current_size.
C1_RoundTrip ==
    (lastOp.op = "write" /\ Extent <= max_size_)
        => /\ lastOp.status \in {"ok", "GrowthDenied", "AllocationFailure"}
           /\ lastOp.status = "ok"
                => (ReadBack /\ lastOp.ret = lastOp.size /\ ~lastOp.oob)
           /\ lastOp.status = "GrowthDenied"
                => (growth_policy_.kind = "Fixed" /\ Extent > current_size_)

\* A write of MaxLen bytes at a positive offset that grew the buffer through
\* the policy and succeeded.
C1_Witness ==
    /\ lastOp.op = "write" /\ lastOp.status = "ok"
    /\ lastOp.size = MaxLen /\ lastOp.offset > 0
    /\ lastOp.call.made /\ Extent <= max_size_
    /\ current_size_ > lastOp.call.current

\* C2: current_size <= max_size in every reachable state.
C2_SizeWithinMax == current_size_ <= max_size_

\* C3: current_size is 0 exactly when the buffer holds no allocation.
C3_ZeroIffUnallocated == (current_size_ = 0) <=> data_.null

\* C4: a write that fails with GrowthDenied or AllocationFailure leaves
\* current_size, the allocation and its bytes, and max_size as they were
\* before the call.
C4_FailedWriteChangesNothing ==
    [][(lastOp'.op = "write"
          /\ lastOp'.status \in {"GrowthDenied", "AllocationFailure"})
        => UNCHANGED <<data_, current_size_, max_size_>>]_vars

\* C5: after set_growth_policy(P) the policy the buffer grows with is P.
C5_PolicySwapped ==
    lastOp.op = "set_growth_policy" => growth_policy_ = lastOp.policy

\* C6: under the Fixed policy a write to an allocated buffer whose extent
\* offset + len(bytes) exceeds the allocation fails with GrowthDenied.
C6_FixedDeniesGrowth ==
    [][(lastOp'.op = "write" /\ growth_policy_.kind = "Fixed"
          /\ ~data_.null
          /\ lastOp'.offset + lastOp'.size > Len(data_.bytes))
        => lastOp'.status = "GrowthDenied"]_vars

\* The effect of the implicit first allocation followed by the copy:
\* initial_size bytes, zero except for the written ones.
ImplicitlyAllocated ==
    /\ lastOp'.status = "ok"
    /\ lastOp'.ret = lastOp'.size
    /\ ~data_'.null
    /\ current_size_' = initial_size_
    /\ current_size_' >= lastOp'.offset + lastOp'.size
    /\ Len(data_'.bytes) = initial_size_
    /\ \A i \in 1..initial_size_ :
          data_'.bytes[i] =
              IF i > lastOp'.offset /\ i <= lastOp'.offset + lastOp'.size
              THEN lastOp'.buffer[i - lastOp'.offset] ELSE 0

\* A write to an unallocated buffer with 0 < offset + len(bytes) <=
\* initial_size.
FirstWriteWithinInitial ==
    /\ lastOp'.op = "write"
    /\ data_.null
    /\ 0 < lastOp'.offset + lastOp'.size
    /\ lastOp'.offset + lastOp'.size <= initial_size_

\* C7 as stated: a write to an unallocated buffer with 0 < offset +
\* len(bytes) <= initial_size allocates initial_size zero-filled bytes,
\* succeeds under every policy, returns len(bytes) and leaves current_size
\* = initial_size.
C7_FirstWriteAlwaysAllocates ==
    [][FirstWriteWithinInitial => ImplicitlyAllocated]_vars

\* C7 amended: such a write does all that unless calloc returns no block;
\* then it fails with AllocationFailure and the buffer stays unallocated
\* with current_size = 0.
C7_ImplicitFirstWrite ==
    [][FirstWriteWithinInitial
        => \/ ImplicitlyAllocated
           \/ /\ lastOp'.status = "AllocationFailure"
              /\ data_'.null /\ current_size_' = 0]_vars

\* A first write under the Fixed policy to a lazy buffer that allocated the
\* block and succeeded.
C7_Witness ==
    /\ lastOp.op = "write" /\ lastOp.status = "ok" /\ lastOp.fresh
    /\ growth_policy_.kind = "Fixed" /\ lazy_init_
    /\ lastOp.size > 0 /\ Extent <= initial_size_
    /\ current_size_ = initial_size_

\* initialize(force) is called on an unallocated buffer.
InitializeUnallocated == lastOp'.op = "initialize" /\ data_.null

\* initialize(force) allocated initial_size zero bytes.
EagerlyAllocated ==
    /\ lastOp'.status = "ok"
    /\ ~data_'.null
    /\ current_size_' = initial_size_
    /\ data_'.bytes = [i \in 1..initial_size_ |-> 0]

\* C8 as stated: initialize(force) on an unallocated buffer allocates
\* initial_size zero bytes and sets current_size = initial_size when lazy is
\* false or force is true, and otherwise leaves the buffer unallocated with
\* current_size = 0.
C8_InitializeAlwaysAllocates ==
    [][InitializeUnallocated
        => IF ~lazy_init_ \/ lastOp'.force
           THEN EagerlyAllocated
           ELSE (lastOp'.status = "ok" /\ data_'.null
                 /\ current_size_' = 0)]_vars

\* C8 amended: the same, unless calloc returns no block in the allocating
\* case; then initialize fails with AllocationFailure and the buffer stays
\* unallocated with current_size = 0.
C8_InitializeAllocation ==
    [][InitializeUnallocated
        => IF ~lazy_init_ \/ lastOp'.force
           THEN \/ EagerlyAllocated
                \/ /\ lastOp'.status = "AllocationFailure"
                   /\ data_'.null /\ current_size_' = 0
           ELSE (lastOp'.status = "ok" /\ data_'.null
                 /\ current_size_' = 0)]_vars

\* A forced initialize of a lazy buffer that allocated a non-empty block.
C8_Witness ==
    /\ lastOp.op = "initialize" /\ lastOp.status = "ok" /\ lastOp.force
    /\ lastOp.fresh /\ lazy_init_
    /\ current_size_ = initial_size_ /\ initial_size_ > 0

\* C9: current_size decreases from one state to the next only across an
\* initialize call with force = true.
C9_ShrinksOnlyOnForcedInitialize ==
    [][current_size_' < current_size_
        => (lastOp'.op = "initialize" /\ lastOp'.force)]_vars

\* A non-forced initialize on a buffer that has grown beyond initial_size.
C9_Witness ==
    /\ lastOp.op = "initialize" /\ ~lastOp.force /\ lastOp.status = "ok"
    /\ current_size_ > initial_size_

\* C10: for the Exponential, Linear and Percentage policies and current <
\* needed <= max, grow_to_size returns r with needed <= r <= max.
C10_ResultWithinNeededAndMax ==
    (lastOp.op = "grow_to_size" /\ lastOp.call.policy.kind # "Fixed"
       /\ lastOp.call.current < lastOp.call.needed
       /\ lastOp.call.needed <= lastOp.call.max)
        => /\ ~lastOp.call.throws
           /\ lastOp.call.needed <= lastOp.call.value
           /\ lastOp.call.value <= lastOp.call.max

\* An Exponential call whose current * 2 wraps around the word, with
\* current < needed <= max.
C10_Witness ==
    /\ lastOp.op = "grow_to_size"
    /\ lastOp.call.policy.kind = "Exponential"
    /\ lastOp.call.current * 2 > SizeMax
    /\ lastOp.call.current < lastOp.call.needed
    /\ lastOp.call.needed <= lastOp.call.max

\* The value each policy's formula yields before clamping, as a number:
\* twice current, current plus half of it, current increased by pct percent
\* and truncated.
NaturalValue(policy, current_size) ==
    CASE policy.kind = "Exponential" -> 2 * current_size
      [] policy.kind = "Linear" -> current_size + (current_size \div 2)
      [] policy.kind = "Percentage" ->
            (current_size * (100 + policy.pct)) \div 100

\* C11: for current < needed <= max a non-Fixed policy returns its natural
\* value when that lies in [needed, max], needed when it is below needed,
\* and max when it is above max.
C11_NaturalValueClamped ==
    (lastOp.op = "grow_to_size" /\ lastOp.call.policy.kind # "Fixed"
       /\ lastOp.call.current < lastOp.call.needed
       /\ lastOp.call.needed <= lastOp.call.max)
        => LET natural == NaturalValue(lastOp.call.policy,
                                       lastOp.call.current)
           IN  /\ ~lastOp.call.throws
               /\ lastOp.call.value =
                    IF natural < lastOp.call.needed THEN lastOp.call.needed
                    ELSE IF natural > lastOp.call.max THEN lastOp.call.max
                    ELSE natural

\* C12: every byte in [0, current_size) that no successful write has stored
\* since the block was allocated is zero.  As a step: the block spans
\* current_size bytes, and a byte that is not zero after a call was stored
\* by that call, a successful write, or was not zero before it in a block
\* the call did not allocate anew.
C12_UnwrittenBytesAreZero ==
    [][/\ ~data_'.null => Len(data_'.bytes) = current_size_'
       /\ \A i \in 1..Len(data_'.bytes) :
            data_'.bytes[i] # 0
                => \/ /\ lastOp'.op = "write" /\ lastOp'.status = "ok"
                      /\ Slot(i, lastOp'.offset) <= lastOp'.size
                   \/ /\ ~lastOp'.fresh
                      /\ i <= Len(data_.bytes)
                      /\ data_.bytes[i] # 0]_vars

\* A write that grew the buffer through the policy and left a byte of the
\* added region unwritten (zero) next to a written one.
C12_Witness ==
    /\ lastOp.op = "write" /\ lastOp.status = "ok"
    /\ lastOp.call.made /\ current_size_ > lastOp.call.current
    /\ \E i \in (lastOp.call.current + 1)..current_size_ :
          data_.bytes[i] = 0
    /\ \E i \in 1..current_size_ : data_.bytes[i] # 0

\* C13: set_max_size(new_max) with new_max < current_size fails with
\* InvalidArgument and leaves max_size as it was; with new_max >=
\* current_size it sets max_size to new_max; in both cases current_size, the
\* allocation and its bytes stay as they were.
C13_SetMaxSize ==
    [][lastOp'.op = "set_max_size"
        => /\ UNCHANGED <<current_size_, data_>>
           /\ IF lastOp'.size < current_size_
              THEN lastOp'.status = "InvalidArgument" /\ UNCHANGED max_size_
              ELSE lastOp'.status = "ok" /\ max_size_' = lastOp'.size]_vars

\* A set_max_size below the size of a non-empty buffer was refused.
C13_Witness ==
    /\ lastOp.op = "set_max_size" /\ lastOp.status = "InvalidArgument"
    /\ lastOp.size < current_size_
    /\ max_size_ # lastOp.size

\* C14: read(offset, size) fails with InvalidRange whenever the mathematical
\* sum offset + size exceeds current_size, for all offsets and sizes of the
\* machine word, and no read, failed or successful, changes the buffer's
\* state.
C14_ReadRangeChecked ==
    [][lastOp'.op = "read"
        => /\ UNCHANGED <<growth_policy_, data_, initial_size_, max_size_,
                          current_size_, lazy_init_>>
           /\ lastOp'.offset + lastOp'.size > current_size_
                => lastOp'.status = "InvalidRange"]_vars

\* With a single client, a write hands the policy arguments with current <
\* needed <= max, needed being the extent grow was given and max the buffer's
\* max_size; grow does not consult the policy when needed <= current_size,
\* nor when needed > max_size, where it fails unless the buffer already holds
\* needed bytes.
SingleClientPolicyContract ==
    [][lastOp'.op = "write"
        => LET needed == Wrap(lastOp'.offset + lastOp'.size)
               call == lastOp'.call
           IN  /\ call.made
                    => /\ call.current < call.needed
                       /\ call.needed <= call.max
                       /\ call.needed = needed
                       /\ call.max = max_size_
                       /\ call.current = IF data_.null THEN initial_size_
                                         ELSE current_size_
               /\ (~data_.null /\ needed <= current_size_) => ~call.made
               /\ (data_.null /\ needed <= initial_size_) => ~call.made
               /\ needed > max_size_ => ~call.made
               /\ (needed > max_size_ /\ needed > current_size_')
                    => lastOp'.status \in {"GrowthDenied",
                                           "AllocationFailure"}]_vars

\* C19: a successful write(offset, bytes) changes only the bytes in
\* [offset, offset + len(bytes)): a byte below the old current_size and
\* outside that range keeps its value, and a newly added byte outside that
\* range is zero.
C19_WriteFrame ==
    [][(lastOp'.op = "write" /\ lastOp'.status = "ok")
        => \A i \in 1..Len(data_'.bytes) :
              (i <= lastOp'.offset \/ i > lastOp'.offset + lastOp'.size)
                  => data_'.bytes[i] =
                        IF ~data_.null /\ i <= current_size_
                        THEN data_.bytes[i] ELSE 0]_vars

\* C20: whenever write(offset, bytes) returns successfully, the mathematical
\* extent offset + len(bytes) is <= current_size and no byte was copied
\* outside [0, current_size).
C20_NoOutOfBoundsWrite ==
    (lastOp.op = "write" /\ lastOp.status = "ok")
        => (Extent <= current_size_ /\ ~lastOp.oob)

\* C15: while a thread is in grow between the test of needed_size against
\* max_size_ and the update of current_size_, no step of another thread
\* changes max_size_ or the policy.
C15_CeilingStableDuringGrow ==
    [][(\E t \in Threads :
            thread[t].pc \in {"grow_policy", "grow_saturated",
                              "grow_realloc"})
        => (max_size_' = max_size_ /\ growth_policy_' = growth_policy_)]_vars

\* The two writes of the threads, run one after the other by a single client
\* on the object as constructed, thread a first: some environment gives the
\* state the object is in and the outcomes the threads saw.
SerialEnvs ==
    [calloc_ok : BOOLEAN, realloc_ok : BOOLEAN,
     conv : IF growth_policy_.kind = "Percentage" THEN Word ELSE {0},
     junk : {0}, fault : {FALSE}]

SerialOrder(a, b) ==
    \E e1 \in SerialEnvs, e2 \in SerialEnvs :
      \E first \in {write(Memory(growth_policy_, initial_size_, max_size_,
                                 lazy_init_),
                          thread[a].buffer, thread[a].offset, e1)} :
        /\ first.status = thread[a].status
        /\ \E second \in {write(first.m, thread[b].buffer, thread[b].offset,
                                e2)} :
              /\ second.status = thread[b].status
              /\ second.m.data_ = data_
              /\ second.m.current_size_ = current_size_

\* C16: when two threads have called write on one buffer, the final
\* current_size and bytes (and the outcome of each call) are those of the two
\* writes run in one of the two sequential orders, and a writer consulted the
\* policy only while the buffer was smaller than its extent.
C16_WritersSerialized ==
    (\A t \in Threads : thread[t].op = "write" /\ thread[t].pc = "done")
        => /\ SerialOrder(1, 2) \/ SerialOrder(2, 1)
           /\ \A t \in Threads :
                 thread[t].call.made
                    => thread[t].call.current < thread[t].call.needed

\* Both writes succeeded; thread 1 grew the buffer, and thread 2, whose
\* extent lies beyond initial_size, found it large enough and did not grow.
C16_Witness ==
    /\ \A t \in Threads :
          /\ thread[t].op = "write" /\ thread[t].pc = "done"
          /\ thread[t].status = "ok"
    /\ thread[1].call.made
    /\ ~thread[2].call.made
    /\ thread[2].offset + thread[2].size > initial_size_
    /\ thread[1].offset + thread[1].size > thread[2].offset

\* C17: the chain write -> grow -> initialize of one thread does not
\* deadlock, and every call, returning or throwing, releases the lock
\* completely: in the end every thread has finished its call and the mutex is
\* free.
C17_LockReleased ==
    <>[](mutex_ = Unlocked /\ \A t \in Threads : thread[t].pc = "done")

\* A thread holds the mutex three times over, in initialize called by grow
\* called by write, while the other waits for it.
C17_Witness ==
    \E t \in Threads, u \in Threads :
        /\ t # u
        /\ mutex_ = [owner |-> t, count |-> 3]
        /\ thread[t].op = "write" /\ thread[t].pc = "calloc"
        /\ thread[u].pc \in {"write", "initialize", "read", "current_size"}

\* C18: the buffer invokes the growth policy only with arguments satisfying
\* current < needed <= max, in every reachable state.
C18_PolicyCalledWithinContract ==
    \A t \in Threads :
        thread[t].call.made
            => /\ thread[t].call.current < thread[t].call.needed
               /\ thread[t].call.needed <= thread[t].call.max

====
